---- MODULE Spec2Model ----
(***************************************************************************)
(* The size-counting pass of the message-layout interpreter               *)
(* (iota-mam-protobuf3/src/command/sizeof.rs): a Context holding one      *)
(* counter of trits, and one implementation of every command trait that   *)
(* adds the encoded length of its argument to the counter.                *)
(*                                                                         *)
(* Values are modelled by what the pass reads of them: a Trits buffer by  *)
(* its size() in trits, a Size by its number, a Mac by its declared       *)
(* length, a signing key by its tree height and the keys it has left.     *)
(***************************************************************************)
EXTENDS Naturals, Sequences, FiniteSets

\* ------------------------------------------------------------------ bounds

\* Trit lengths of the values handed to the operations: 0..MaxTrits.
MaxTrits == 4
\* Operations run on one Context before it is dropped.
MaxOps == 2
\* Merkle tree heights of the signer: 0..MaxHeight (2^height one-time keys).
MaxHeight == 1
\* Items handed to one repeated call, and calls made by one continuation.
MaxItems == 2
\* Characters of an addr_id or msg_id handed to an Address.
MaxIdLen == 2

\* ------------------------------------------- widths fixed by the key schemes
\* mss:: and ntru:: live in iota_mam_core; the pass only reads these names.
\* The model keeps them pairwise distinct.

mss_PK_SIZE == 6
mss_HASH_SIZE == 3
ntru_PK_SIZE == 9
ntru_KEY_SIZE == 6
ntru_EKEY_SIZE == 12

\* Signature size depends on Merkle tree height.
mss_sig_size(height) == 15 + 3 * height

\* Number of trytes needed to hold n: the least d with n <= (27^d - 1) / 2.
RECURSIVE size_trytes_from(_, _, _)
size_trytes_from(n, d, m) ==
    IF n > (m - 1) \div 2 THEN size_trytes_from(n, d + 1, m * 27) ELSE d

size_trytes(n) == size_trytes_from(n, 0, 1)

\* Size has var-size encoding: one tryte for the tryte count, then the trytes.
sizeof_sizet(n) == 3 * (size_trytes(n) + 1)

\* sk.private_keys_left(): leaves of the tree not yet used.
RECURSIVE pow2(_)
pow2(h) == IF h = 0 THEN 1 ELSE 2 * pow2(h - 1)

private_keys_left(sk) == pow2(sk.height) - sk.skn

\* ------------------------------------------------------------ Fallible<..>

\* Ok(self): the context as the operation left it.
Ok(sz) == [ok |-> TRUE, size |-> sz, err |-> "none"]

\* ensure!(..) failed: the error, and the context as it is at that point.
Fail(sz, e) == [ok |-> FALSE, size |-> sz, err |-> e]

\* ----------------------------------------------------------------- absorb

absorb_Trint3(sz) == Ok(sz + 3)

absorb_Size(sz, n) == Ok(sz + sizeof_sizet(n))

absorb_External(sz, n) == Ok(sz)

absorb_External_ref(sz, n) == Ok(sz)

absorb_Trytes(sz, n) ==
    IF n % 3 # 0 THEN Fail(sz, "trytes_mult3")
    ELSE Ok(sz + sizeof_sizet(n \div 3) + n)

\* Variant: the length counted in trytes instead of trits.
absorb_NTrytes_in_trytes(sz, n) ==
    IF n % 3 # 0 THEN Fail(sz, "ntrytes_mult3") ELSE Ok(sz + n \div 3)

absorb_NTrytes(sz, n) ==
    IF n % 3 # 0 THEN Fail(sz, "ntrytes_mult3") ELSE Ok(sz + n)

absorb_mss_PublicKey(sz, n) ==
    IF n # mss_PK_SIZE THEN Fail(sz, "mss_pk_size") ELSE Ok(sz + mss_PK_SIZE)

absorb_ntru_PublicKey(sz, n) ==
    IF n # ntru_PK_SIZE THEN Fail(sz, "ntru_pk_size") ELSE Ok(sz + ntru_PK_SIZE)

\* ---------------------------------------------------------------- squeeze

squeeze_External_NTrytes(sz, n) == Ok(sz)

\* Variant: an external Mac is validated and counted like a Mac.
squeeze_External_Mac_counted(sz, n) ==
    IF n % 3 # 0 THEN Fail(sz, "mac_mult3") ELSE Ok(sz + n)

squeeze_External_Mac(sz, n) == Ok(sz)

squeeze_Mac(sz, n) ==
    IF n % 3 # 0 THEN Fail(sz, "mac_mult3") ELSE Ok(sz + n)

\* ------------------------------------------------------------------- mask

mask_Trint3(sz) == Ok(sz + 3)

mask_Size(sz, n) == Ok(sz + sizeof_sizet(n))

mask_NTrytes(sz, n) == Ok(sz + n)

\* Variant: the size prefix is counted before the length is validated.
mask_Trytes_counts_first(sz, n) ==
    LET r == mask_Size(sz, n \div 3)
    IN  IF n % 3 # 0 THEN Fail(r.size, "trytes_mult3") ELSE Ok(r.size + n)

mask_Trytes(sz, n) ==
    IF n % 3 # 0 THEN Fail(sz, "trytes_mult3")
    ELSE LET r == mask_Size(sz, n \div 3)
         IN  IF ~r.ok THEN r ELSE Ok(r.size + n)

mask_ntru_PublicKey(sz, n) ==
    IF n # ntru_PK_SIZE THEN Fail(sz, "ntru_pk_size") ELSE Ok(sz + ntru_PK_SIZE)

mask_mss_PublicKey(sz, n) ==
    IF n # mss_PK_SIZE THEN Fail(sz, "mss_pk_size") ELSE Ok(sz + mss_PK_SIZE)

\* ------------------------------------------------------------------- skip

skip_Trint3(sz) == Ok(sz + 3)

skip_Size(sz, n) == Ok(sz + sizeof_sizet(n))

\* Variant: the size prefix is left out.
skip_Trytes_no_prefix(sz, n) ==
    IF n % 3 # 0 THEN Fail(sz, "trytes_mult3") ELSE Ok(sz + n)

skip_Trytes(sz, n) ==
    IF n % 3 # 0 THEN Fail(sz, "trytes_mult3")
    ELSE Ok(sz + sizeof_sizet(n \div 3) + n)

skip_NTrytes(sz, n) ==
    IF n % 3 # 0 THEN Fail(sz, "ntrytes_mult3") ELSE Ok(sz + n)

\* ----------------------------------------------------------------- commit

commit(sz) == Ok(sz)

\* ------------------------------------------------------------------ mssig

mssig_External_NTrytes(sz, sk, n) ==
    IF mss_HASH_SIZE # n THEN Fail(sz, "hash_size")
    ELSE IF ~(private_keys_left(sk) > 0) THEN Fail(sz, "keys_exhausted")
    ELSE Ok(sz + mss_sig_size(sk.height))

\* Variant: the last key is never used.
mssig_External_Mac_off_by_one(sz, sk, n) ==
    IF mss_HASH_SIZE # n THEN Fail(sz, "hash_size")
    ELSE IF ~(private_keys_left(sk) > 1) THEN Fail(sz, "keys_exhausted")
    ELSE Ok(sz + mss_sig_size(sk.height))

mssig_External_Mac(sz, sk, n) ==
    IF mss_HASH_SIZE # n THEN Fail(sz, "hash_size")
    ELSE IF ~(private_keys_left(sk) > 0) THEN Fail(sz, "keys_exhausted")
    ELSE Ok(sz + mss_sig_size(sk.height))

mssig_MssHashSig(sz, sk) == Ok(sz + mss_sig_size(sk.height))

\* ---------------------------------------------------------------- ntrukem

\* Variant: the public key is validated too.
ntrukem_checks_key(sz, key, n) ==
    IF ntru_PK_SIZE # key THEN Fail(sz, "ntru_pk_size")
    ELSE IF ntru_KEY_SIZE # n THEN Fail(sz, "ntru_key_size")
    ELSE Ok(sz + ntru_EKEY_SIZE)

ntrukem(sz, key, n) ==
    IF ntru_KEY_SIZE # n THEN Fail(sz, "ntru_key_size")
    ELSE Ok(sz + ntru_EKEY_SIZE)

\* ------------------------------------------------- calls made on a Context

\* One call ctx.<op>(value): the trait and the value's type select the impl.
\* n is the value's trit length (the number of a Size, the length of a Mac),
\* k the trit length of the public key handed to ntrukem.
Call(op, ty, n, k) == [op |-> op, ty |-> ty, n |-> n, k |-> k]

apply(sz, sk, c) ==
    CASE c.op = "absorb" /\ c.ty = "Trint3" -> absorb_Trint3(sz)
      [] c.op = "absorb" /\ c.ty = "Size" -> absorb_Size(sz, c.n)
      [] c.op = "absorb" /\ c.ty = "External" -> absorb_External(sz, c.n)
      [] c.op = "absorb" /\ c.ty = "External_ref" -> absorb_External_ref(sz, c.n)
      [] c.op = "absorb" /\ c.ty = "Trytes" -> absorb_Trytes(sz, c.n)
      [] c.op = "absorb" /\ c.ty = "NTrytes" -> absorb_NTrytes(sz, c.n)
      [] c.op = "absorb" /\ c.ty = "mss_PublicKey" -> absorb_mss_PublicKey(sz, c.n)
      [] c.op = "absorb" /\ c.ty = "ntru_PublicKey" -> absorb_ntru_PublicKey(sz, c.n)
      [] c.op = "squeeze" /\ c.ty = "External_NTrytes" -> squeeze_External_NTrytes(sz, c.n)
      [] c.op = "squeeze" /\ c.ty = "External_Mac" -> squeeze_External_Mac(sz, c.n)
      [] c.op = "squeeze" /\ c.ty = "Mac" -> squeeze_Mac(sz, c.n)
      [] c.op = "mask" /\ c.ty = "Trint3" -> mask_Trint3(sz)
      [] c.op = "mask" /\ c.ty = "Size" -> mask_Size(sz, c.n)
      [] c.op = "mask" /\ c.ty = "NTrytes" -> mask_NTrytes(sz, c.n)
      [] c.op = "mask" /\ c.ty = "Trytes" -> mask_Trytes(sz, c.n)
      [] c.op = "mask" /\ c.ty = "ntru_PublicKey" -> mask_ntru_PublicKey(sz, c.n)
      [] c.op = "mask" /\ c.ty = "mss_PublicKey" -> mask_mss_PublicKey(sz, c.n)
      [] c.op = "skip" /\ c.ty = "Trint3" -> skip_Trint3(sz)
      [] c.op = "skip" /\ c.ty = "Size" -> skip_Size(sz, c.n)
      [] c.op = "skip" /\ c.ty = "Trytes" -> skip_Trytes(sz, c.n)
      [] c.op = "skip" /\ c.ty = "NTrytes" -> skip_NTrytes(sz, c.n)
      [] c.op = "commit" -> commit(sz)
      [] c.op = "mssig" /\ c.ty = "External_NTrytes" -> mssig_External_NTrytes(sz, sk, c.n)
      [] c.op = "mssig" /\ c.ty = "External_Mac" -> mssig_External_Mac(sz, sk, c.n)
      [] c.op = "mssig" /\ c.ty = "MssHashSig" -> mssig_MssHashSig(sz, sk)
      [] c.op = "ntrukem" -> ntrukem(sz, c.k, c.n)

\* A closure handed to the pass, |ctx| ctx.a(x)?.b(y): its calls in order,
\* the first error returned at once.
RECURSIVE run_calls(_, _, _)
run_calls(sz, sk, calls) ==
    IF calls = <<>> THEN Ok(sz)
    ELSE LET r == apply(sz, sk, Head(calls))
         IN  IF ~r.ok THEN r ELSE run_calls(r.size, sk, Tail(calls))

\* Variant: the continuation runs on a copy of the context, which is
\* dropped when it returns.
fork_on_copy(sz, sk, cont) ==
    LET r == run_calls(sz, sk, cont) IN IF r.ok THEN Ok(sz) ELSE Fail(sz, r.err)

\* Forks cost nothing in the trinary stream.
fork(sz, sk, cont) == run_calls(sz, sk, cont)

\* val.sizeof_absorb(self)?; Ok(self)
absorb_Fallback(sz, sk, prog) ==
    LET r == run_calls(sz, sk, prog) IN IF ~r.ok THEN r ELSE Ok(r.size)

\* val.sizeof_skip(self)?; Ok(self)
skip_Fallback(sz, sk, prog) ==
    LET r == run_calls(sz, sk, prog) IN IF ~r.ok THEN r ELSE Ok(r.size)

\* link.sizeof_skip(self)?; Ok(self): the store is not consulted.
join(sz, sk, prog) ==
    LET r == run_calls(sz, sk, prog) IN IF ~r.ok THEN r ELSE Ok(r.size)

\* value_handle(ctx, item): the handler makes one call on the item.
value_handle(sz, sk, h, item) == apply(sz, sk, Call(h.op, h.ty, item, 0))

\* Variant: the handler runs on every item, whatever came before.
repeated_step_goes_on(rctx, sk, h, item) ==
    LET r == value_handle(rctx.size, sk, h, item)
    IN  [ok |-> rctx.ok /\ r.ok, size |-> r.size,
         err |-> IF rctx.ok THEN r.err ELSE rctx.err,
         seen |-> Append(rctx.seen, item)]

\* The closure of the fold: on Ok the handler runs on the item, an Err is
\* passed on.  seen lists the items the handler was invoked on.
repeated_step(rctx, sk, h, item) ==
    IF rctx.ok
    THEN LET r == value_handle(rctx.size, sk, h, item)
         IN  [ok |-> r.ok, size |-> r.size, err |-> r.err,
              seen |-> Append(rctx.seen, item)]
    ELSE rctx

RECURSIVE fold(_, _, _, _)
fold(rctx, sk, h, items) ==
    IF items = <<>> THEN rctx
    ELSE fold(repeated_step(rctx, sk, h, Head(items)), sk, h, Tail(items))

\* Variant: the number of items is encoded before the items.
repeated_counts_items(sz, sk, items, h) ==
    fold([ok |-> TRUE, size |-> sz + sizeof_sizet(Len(items)), err |-> "none",
          seen |-> <<>>], sk, h, items)

\* values_iter.fold(Ok(self), ..)
repeated(sz, sk, items, h) ==
    fold([ok |-> TRUE, size |-> sz, err |-> "none", seen |-> <<>>], sk, h, items)

\* ---------------------------------------------------------- the Wrap pass
\* The writing pass is not part of this source; it is modelled from the wire
\* format of the specification (section 6) and the preconditions it mirrors
\* (section 4.3).  A Wrap context is the length of its buffer and the signer
\* it signs with, whose key counter skn advances with every signature.

\* Trytes of the encoding of n: its balanced base-27 digits.
RECURSIVE wire_digits(_)
wire_digits(n) == IF n = 0 THEN 0 ELSE 1 + wire_digits((n + 13) \div 27)

\* Size(n) on the wire: the digit count in one tryte, then the digits.
wire_Size(n) == 3 + 3 * wire_digits(n)

\* What a call requires of its value before anything is written.
wrap_pre(left, c) ==
    CASE c.ty \in {"Trytes", "NTrytes", "Mac"} -> c.n % 3 = 0
      [] c.ty = "mss_PublicKey" -> c.n = mss_PK_SIZE
      [] c.ty = "ntru_PublicKey" -> c.n = ntru_PK_SIZE
      [] c.op = "mssig" /\ c.ty = "MssHashSig" -> left > 0
      [] c.op = "mssig" /\ c.ty # "MssHashSig" -> c.n = mss_HASH_SIZE /\ left > 0
      [] c.op = "ntrukem" -> c.n = ntru_KEY_SIZE
      [] OTHER -> TRUE

\* Trits a call places on the wire.
wrap_len(height, c) ==
    CASE c.op = "commit" -> 0
      [] c.op = "mssig" -> mss_sig_size(height)
      [] c.op = "ntrukem" -> ntru_EKEY_SIZE
      [] c.ty \in {"External", "External_ref", "External_NTrytes",
                   "External_Mac"} -> 0
      [] c.ty = "Trint3" -> 3
      [] c.ty = "Size" -> wire_Size(c.n)
      [] c.ty = "Trytes" -> wire_Size(c.n \div 3) + c.n
      [] c.ty \in {"NTrytes", "Mac"} -> c.n
      [] c.ty = "mss_PublicKey" -> mss_PK_SIZE
      [] c.ty = "ntru_PublicKey" -> ntru_PK_SIZE

\* One call on a Wrap context w = [ok, len, skn]; a failed pass has no
\* usable buffer.
wrap_apply(w, height, c) ==
    IF ~wrap_pre(pow2(height) - w.skn, c)
    THEN [ok |-> FALSE, len |-> 0, skn |-> w.skn]
    ELSE [ok |-> TRUE, len |-> w.len + wrap_len(height, c),
          skn |-> IF c.op = "mssig" THEN w.skn + 1 ELSE w.skn]

\* A nested sequence of calls (a continuation, a handler per item, a link).
RECURSIVE wrap_calls(_, _, _)
wrap_calls(w, height, calls) ==
    IF calls = <<>> \/ ~w.ok THEN w
    ELSE wrap_calls(wrap_apply(w, height, Head(calls)), height, Tail(calls))

\* The calls a repeated makes: the handler's call on every item.
handler_calls(h, items) ==
    [i \in 1..Len(items) |-> Call(h.op, h.ty, items[i], 0)]

\* ------------------------------------------------------------------ inputs

TritSizes == 0..MaxTrits

\* Numbers around the first step of the size encoding (13 | 14).
SizeValues == {0, 1, 13, 14}

\* Payloads short, and around the same step counted in trytes.
TrytesSizes == TritSizes \cup {3 * 13, 3 * 14}

KeySizes(fixed) == {0, fixed, fixed + 1}

AbsorbCalls ==
    {Call("absorb", "Trint3", 0, 0)}
    \cup {Call("absorb", "Size", n, 0) : n \in SizeValues}
    \cup {Call("absorb", ty, n, 0) :
            ty \in {"External", "External_ref"}, n \in TritSizes}
    \cup {Call("absorb", "Trytes", n, 0) : n \in TrytesSizes}
    \cup {Call("absorb", "NTrytes", n, 0) : n \in TritSizes}
    \cup {Call("absorb", "mss_PublicKey", n, 0) : n \in KeySizes(mss_PK_SIZE)}
    \cup {Call("absorb", "ntru_PublicKey", n, 0) : n \in KeySizes(ntru_PK_SIZE)}

SqueezeCalls ==
    {Call("squeeze", ty, n, 0) :
        ty \in {"External_NTrytes", "External_Mac", "Mac"}, n \in TritSizes}

MaskCalls ==
    {Call("mask", "Trint3", 0, 0)}
    \cup {Call("mask", "Size", n, 0) : n \in SizeValues}
    \cup {Call("mask", "NTrytes", n, 0) : n \in TritSizes}
    \cup {Call("mask", "Trytes", n, 0) : n \in TrytesSizes}
    \cup {Call("mask", "ntru_PublicKey", n, 0) : n \in KeySizes(ntru_PK_SIZE)}
    \cup {Call("mask", "mss_PublicKey", n, 0) : n \in KeySizes(mss_PK_SIZE)}

SkipCalls ==
    {Call("skip", "Trint3", 0, 0)}
    \cup {Call("skip", "Size", n, 0) : n \in SizeValues}
    \cup {Call("skip", "Trytes", n, 0) : n \in TrytesSizes}
    \cup {Call("skip", "NTrytes", n, 0) : n \in TritSizes}

CommitCall == Call("commit", "none", 0, 0)

MssigCalls ==
    {Call("mssig", ty, n, 0) :
        ty \in {"External_NTrytes", "External_Mac"}, n \in KeySizes(mss_HASH_SIZE)}
    \cup {Call("mssig", "MssHashSig", 0, 0)}

NtrukemCalls ==
    {Call("ntrukem", "NTrytes", n, k) :
        n \in KeySizes(ntru_KEY_SIZE), k \in KeySizes(ntru_PK_SIZE)}

\* Calls a continuation is made of.
ContCalls ==
    {Call("absorb", "Trint3", 0, 0), Call("absorb", "Trytes", 1, 0),
     Call("mssig", "External_Mac", mss_HASH_SIZE, 0)}

RECURSIVE SeqsUpTo(_, _)
SeqsUpTo(S, n) ==
    IF n = 0 THEN {<<>>}
    ELSE LET shorter == SeqsUpTo(S, n - 1)
         IN  shorter \cup {Append(q, x) : q \in shorter, x \in S}

Conts == SeqsUpTo(ContCalls, MaxItems)

\* A link skips its parts in turn (sizeof_skip).
LinkParts ==
    {Call("skip", "NTrytes", 3, 0), Call("skip", "NTrytes", 1, 0)}

Links == SeqsUpTo(LinkParts, MaxItems) \ {<<>>}

\* Handlers of repeated: the call made on each item.
Handlers ==
    {[op |-> "absorb", ty |-> "Trytes"], [op |-> "skip", ty |-> "NTrytes"],
     [op |-> "mask", ty |-> "NTrytes"]}

\* Item values: an empty payload, an invalid length, one tryte.
ItemValues == {0, 1, 3}

ItemSeqs == SeqsUpTo(ItemValues, MaxItems)

NoHandler == [op |-> "none", ty |-> "none"]

\* ------------------------------------------------------------------- state

VARIABLES
    size,     \* Context.size: the current message size in trits
    pc,       \* the spec function: "ready" to make a call, "returned" from
              \* one with its result not yet looked at, "aborted" by an error
    before,   \* the counter when the last operation was called
    call,     \* the last operation and its arguments
    res,      \* what it returned: [ok, err]
    seen,     \* the items the handler of the last repeated was invoked on
    nops,     \* operations run on this Context
    sk,       \* the signer [height, skn] the pass is handed
    signed,   \* calls of mssig with an external hash that returned Ok
              \* on this Context
    wrap      \* the Wrap pass of the same operations: [ok, len, skn]

vars == <<size, pc, before, call, res, seen, nops, sk, signed, wrap>>

\* The Address of the bindings (bindings/wasm/src/types/mod.rs) and the
\* strings made of it.
VARIABLES
    address,  \* the Address: [addr_id, msg_id]
    link_str, \* the string the caller holds
    parsed,   \* what from_string made of it
    stage     \* "built", "stringed", "bracketed", then "parsed"

avars == <<address, link_str, parsed, stage>>

Made(c, prog, items, h) ==
    [op |-> c.op, ty |-> c.ty, n |-> c.n, k |-> c.k,
     prog |-> prog, items |-> items, h |-> h]

NoCall == Made(Call("none", "none", 0, 0), <<>>, <<>>, NoHandler)

\* Context::new(), a fresh Wrap context, and a signer with all its keys.
Init ==
    /\ size = 0
    /\ pc = "ready"
    /\ before = 0
    /\ call = NoCall
    /\ res = [ok |-> TRUE, err |-> "none"]
    /\ seen = <<>>
    /\ nops = 0
    /\ sk \in {[height |-> h, skn |-> 0] : h \in 0..MaxHeight}
    /\ signed = 0
    /\ wrap = [ok |-> TRUE, len |-> 0, skn |-> 0]

\* One operation of the spec function, made on the Context; the same
\* calls with the same values are made on the Wrap context.
Step(made, r, wcalls, items_seen) ==
    /\ pc = "ready"
    /\ nops < MaxOps
    /\ pc' = "returned"
    /\ before' = size
    /\ size' = r.size
    /\ call' = made
    /\ res' = [ok |-> r.ok, err |-> r.err]
    /\ seen' = items_seen
    /\ nops' = nops + 1
    /\ signed' = IF made.op = "mssig" /\ made.ty # "MssHashSig" /\ r.ok
                 THEN signed + 1 ELSE signed
    /\ wrap' = wrap_calls(wrap, sk.height, wcalls)
    /\ UNCHANGED <<sk, avars>>

Prim(c) == Step(Made(c, <<>>, <<>>, NoHandler), apply(size, sk, c), <<c>>, <<>>)

Absorb ==
    \/ \E c \in AbsorbCalls : Prim(c)
    \/ \E prog \in Links :
         Step(Made(Call("absorb", "Fallback", 0, 0), prog, <<>>, NoHandler),
              absorb_Fallback(size, sk, prog), prog, <<>>)

Squeeze == \E c \in SqueezeCalls : Prim(c)

Mask == \E c \in MaskCalls : Prim(c)

Skip ==
    \/ \E c \in SkipCalls : Prim(c)
    \/ \E prog \in Links :
         Step(Made(Call("skip", "Fallback", 0, 0), prog, <<>>, NoHandler),
              skip_Fallback(size, sk, prog), prog, <<>>)

Commit == Prim(CommitCall)

Mssig == \E c \in MssigCalls : Prim(c)

Ntrukem == \E c \in NtrukemCalls : Prim(c)

Fork ==
    \E cont \in Conts :
        Step(Made(Call("fork", "none", 0, 0), cont, <<>>, NoHandler),
             fork(size, sk, cont), cont, <<>>)

Repeated ==
    \E items \in ItemSeqs, h \in Handlers :
        LET r == repeated(size, sk, items, h)
        IN  Step(Made(Call("repeated", "none", 0, 0), <<>>, items, h),
                 r, handler_calls(h, items), r.seen)

Join ==
    \E link \in Links :
        Step(Made(Call("join", "Link", 0, 0), link, <<>>, NoHandler),
             join(size, sk, link), link, <<>>)

\* The ? after a call: on Ok the spec function goes on with the Context
\* (the result and the arguments are dropped), on Err it returns the error.
Try ==
    /\ pc = "returned"
    /\ IF res.ok
       THEN /\ pc' = "ready"
            /\ before' = size
            /\ call' = NoCall
            /\ seen' = <<>>
       ELSE /\ pc' = "aborted"
            /\ UNCHANGED <<before, call, seen>>
    /\ UNCHANGED <<size, res, nops, sk, signed, wrap, avars>>

\* The Context is dropped and the next message starts with new ones; the
\* signer is the one the Wrap pass signed with.
NewContext ==
    /\ pc \in {"ready", "aborted"}
    /\ nops > 0
    /\ size' = 0
    /\ pc' = "ready"
    /\ before' = 0
    /\ call' = NoCall
    /\ res' = [ok |-> TRUE, err |-> "none"]
    /\ seen' = <<>>
    /\ nops' = 0
    /\ signed' = 0
    /\ sk' = [height |-> sk.height, skn |-> wrap.skn]
    /\ wrap' = [ok |-> TRUE, len |-> 0, skn |-> wrap.skn]
    /\ UNCHANGED avars

Next ==
    \/ Absorb
    \/ Squeeze
    \/ Mask
    \/ Skip
    \/ Commit
    \/ Mssig
    \/ Ntrukem
    \/ Fork
    \/ Repeated
    \/ Join
    \/ Try
    \/ NewContext

\* ----------------------------------------------------------------- Address

\* A String is the sequence of its characters.
Chars == {"a", ":", "<", ">"}

Strings == SeqsUpTo(Chars, MaxIdLen)

None == [some |-> FALSE, v |-> <<>>]

Some(v) == [some |-> TRUE, v |-> v]

\* str::strip_prefix with a one-character pattern
strip_prefix(s, c) ==
    IF s # <<>> /\ Head(s) = c THEN Some(Tail(s)) ELSE None

\* str::strip_suffix with a one-character pattern
strip_suffix(s, c) ==
    IF s # <<>> /\ s[Len(s)] = c THEN Some(SubSeq(s, 1, Len(s) - 1)) ELSE None

\* Option::unwrap_or
unwrap_or(o, default) == IF o.some THEN o.v ELSE default

\* str::split(c).collect(): the pieces between the occurrences of c, the
\* empty ones included; cur is the piece being read from position i.
RECURSIVE split_from(_, _, _, _)
split_from(s, c, i, cur) ==
    IF i > Len(s) THEN <<cur>>
    ELSE IF s[i] = c THEN <<cur>> \o split_from(s, c, i + 1, <<>>)
    ELSE split_from(s, c, i + 1, Append(cur, s[i]))

split(s, c) == split_from(s, c, 1, <<>>)

\* Address::default()
DefaultAddress == [addr_id |-> <<>>, msg_id |-> <<>>]

\* Indexing link_vec past its end panics.
Panic == [panic |-> TRUE, addr_id |-> <<>>, msg_id |-> <<>>]

\* Variant: the brackets are not stripped.
from_string_keeps_brackets(s) ==
    LET link_vec == split(s, ":")
    IN  IF Len(link_vec) < 2 THEN Panic
        ELSE [panic |-> FALSE, addr_id |-> link_vec[1], msg_id |-> link_vec[2]]

\* Address::from_string: both unwrap_or fall back to the whole link.
from_string(s) ==
    LET unprefixed == unwrap_or(strip_prefix(s, "<"), s)
        stripped == unwrap_or(strip_suffix(unprefixed, ">"), s)
        link_vec == split(stripped, ":")
    IN  IF Len(link_vec) < 2 THEN Panic
        ELSE [panic |-> FALSE, addr_id |-> link_vec[1], msg_id |-> link_vec[2]]

\* Address::to_string
to_string(a) == a.addr_id \o <<":">> \o a.msg_id

AddressInit ==
    /\ address = DefaultAddress
    /\ link_str = <<>>
    /\ parsed = Panic
    /\ stage = "built"

set_addr_id ==
    /\ stage = "built"
    /\ \E s \in Strings : address' = [address EXCEPT !.addr_id = s]
    /\ UNCHANGED <<link_str, parsed, stage, vars>>

set_msg_id ==
    /\ stage = "built"
    /\ \E s \in Strings : address' = [address EXCEPT !.msg_id = s]
    /\ UNCHANGED <<link_str, parsed, stage, vars>>

ToString ==
    /\ stage = "built"
    /\ link_str' = to_string(address)
    /\ stage' = "stringed"
    /\ UNCHANGED <<address, parsed, vars>>

\* The caller writes the link in angle brackets.
Bracket ==
    /\ stage = "stringed"
    /\ link_str' = <<"<">> \o link_str \o <<">">>
    /\ stage' = "bracketed"
    /\ UNCHANGED <<address, parsed, vars>>

FromString ==
    /\ stage \in {"stringed", "bracketed"}
    /\ parsed' = from_string(link_str)
    /\ stage' = "parsed"
    /\ UNCHANGED <<address, link_str, vars>>

AddressNext ==
    \/ set_addr_id
    \/ set_msg_id
    \/ ToString
    \/ Bracket
    \/ FromString

\* A new Context beside a default Address.
SpecInit == Init /\ AddressInit

Spec == SpecInit /\ [][Next]_<<vars, avars>>

\* An Address built, written and read back, beside an untouched Context.
AddressSpecInit == Init /\ sk.height = 0 /\ AddressInit

AddressSpec == AddressSpecInit /\ [][AddressNext]_<<vars, avars>>

\* get_size()
get_size == size

\* ---------------------------------------------------------------- helpers

\* Operations that run calls handed to them: a continuation, a handler per
\* item, the encoding of a link or of another self-encoding value.
Composite(c) == c.op \in {"fork", "repeated", "join"} \/ c.ty = "Fallback"

InnerCalls(c) ==
    IF c.op = "repeated" THEN handler_calls(c.h, c.items) ELSE c.prog

\* What one call adds to a counter, and whether it is accepted: neither
\* depends on the counter it is made on.
Delta(c) == apply(0, sk, c).size

Accepted(c) == apply(0, sk, c).ok

\* Index of the first call that is refused; 0 when all are accepted.
FirstRefused(calls) ==
    IF \A i \in 1..Len(calls) : Accepted(calls[i]) THEN 0
    ELSE CHOOSE i \in 1..Len(calls) :
            /\ ~Accepted(calls[i])
            /\ \A j \in 1..(i - 1) : Accepted(calls[j])

RECURSIVE SumDelta(_, _)
SumDelta(calls, k) ==
    IF k = 0 THEN 0 ELSE SumDelta(calls, k - 1) + Delta(calls[k])

HasLength(c) ==
    \/ c.op \in {"absorb", "skip", "mask"} /\ c.ty \in {"Trytes", "NTrytes"}
    \/ c.op = "squeeze" /\ c.ty = "Mac"

\* ------------------------------------------------------------------ claims

\* C1: when the Sizeof pass and the Wrap pass of the same operations on the
\* same values have both succeeded so far, get_size is the length of the
\* buffer Wrap has written.
C1_SizeofEqualsWrap == (res.ok /\ wrap.ok) => get_size = wrap.len

\* C1 witness: a second operation, a signature, after one that wrote
\* something, both passes having succeeded.
C1_Witness ==
    /\ pc = "returned" /\ nops = 2 /\ call.op = "mssig"
    /\ res.ok /\ wrap.ok
    /\ before > 0 /\ wrap.len = before + mss_sig_size(sk.height)

\* C2 as claimed: whenever an operation returns an error, the counter is
\* what it was before the call.
C2_ErrorLeavesCounter == (pc = "returned" /\ ~res.ok) => size = before

\* C2 amended: an error of absorb, squeeze, mask or skip of a value the pass
\* encodes itself, of mssig or of ntrukem leaves the counter as it was; an
\* error of an operation that runs calls handed to it is the error of the
\* first refused call, and the counter keeps what the calls before it added.
C2_ErrorLeavesCounterOfDirectCalls ==
    (pc = "returned" /\ ~res.ok) =>
        IF Composite(call)
        THEN LET calls == InnerCalls(call)
                 k == FirstRefused(calls)
             IN  /\ k > 0
                 /\ size = before + SumDelta(calls, k - 1)
                 /\ res.err = apply(0, sk, calls[k]).err
        ELSE size = before

\* C2 witness: mask of Trytes of an invalid length on a counter that has
\* already counted something.
C2_Witness ==
    /\ pc = "returned" /\ call.op = "mask" /\ call.ty = "Trytes"
    /\ ~res.ok /\ before > 0 /\ size = before

\* C3 as claimed: absorb, skip and mask of Trytes and NTrytes and squeeze of
\* Mac fail when the trit length is not a multiple of 3.
C3_LengthMultipleOf3Enforced ==
    (pc = "returned" /\ HasLength(call) /\ call.n % 3 # 0) => ~res.ok

\* C4 as claimed: mssig fails, whatever the form of the hash, when the
\* signer has no one-time key left.
C4_MssigRequiresKey ==
    (pc = "returned" /\ call.op = "mssig" /\ private_keys_left(sk) = 0)
        => ~res.ok

\* C5 as claimed: of the mssig calls made in the Sizeof pass with a signer
\* that has N one-time keys, N succeed and the next one fails: never more
\* than N have succeeded.
C5_SizeofSignsAtMostN == signed <= private_keys_left(sk)

\* C5 amended: mssig of the Sizeof pass takes no key from the signer.  A
\* call with an external hash of HASH_SIZE trits succeeds when the signer
\* has a key left at that moment, however many calls came before it, and
\* fails with the key-exhaustion error only when the signer has none left.
C5_SizeofSignsWhileAKeyIsLeft ==
    (/\ pc = "returned" /\ call.op = "mssig"
     /\ call.ty \in {"External_NTrytes", "External_Mac"}
     /\ call.n = mss_HASH_SIZE)
        => IF private_keys_left(sk) > 0
           THEN res.ok /\ size = before + mss_sig_size(sk.height)
           ELSE ~res.ok /\ res.err = "keys_exhausted"

\* C5 witness: with a signer of one key, a second call in a row succeeded.
C5_Witness ==
    /\ pc = "returned" /\ call.op = "mssig" /\ call.ty = "External_Mac"
    /\ private_keys_left(sk) = 1 /\ signed = 2 /\ res.ok

\* C6: absorb, skip and mask of Trytes of n trits, n a multiple of 3,
\* succeed and add sizeof_sizet(n / 3) + n to the counter.
C6_TrytesSizeLaw ==
    (/\ pc = "returned" /\ call.op \in {"absorb", "skip", "mask"}
     /\ call.ty = "Trytes" /\ call.n % 3 = 0)
        => res.ok /\ size = before + sizeof_sizet(call.n \div 3) + call.n

\* C6 witness: skip of Trytes of 14 trytes, the first length whose prefix
\* takes three trytes, on a counter that is not 0.
C6_Witness ==
    /\ pc = "returned" /\ call.op = "skip" /\ call.ty = "Trytes"
    /\ call.n = 3 * 14 /\ before > 0 /\ res.ok /\ size = before + 9 + 42

\* C7: absorb of an External value, squeeze of an External NTrytes or Mac
\* and commit succeed and leave the counter as it was.
C7_ExternalAndCommitCostNothing ==
    (/\ pc = "returned"
     /\ \/ call.op = "absorb" /\ call.ty \in {"External", "External_ref"}
        \/ call.op = "squeeze" /\ call.ty \in {"External_NTrytes", "External_Mac"}
        \/ call.op = "commit")
        => res.ok /\ size = before

\* C7 witness: squeeze of an external Mac whose length is no multiple of 3,
\* on a counter that is not 0.
C7_Witness ==
    /\ pc = "returned" /\ call.op = "squeeze" /\ call.ty = "External_Mac"
    /\ call.n % 3 # 0 /\ before > 0 /\ res.ok /\ size = before

\* C8: repeated adds nothing for the number of items: when it succeeds the
\* counter has grown by the sum of what the handler adds for each item, and
\* on no items it succeeds with the counter as it was.
C8_RepeatedAddsTheItemsOnly ==
    (pc = "returned" /\ call.op = "repeated") =>
        LET calls == handler_calls(call.h, call.items)
        IN  /\ res.ok => size = before + SumDelta(calls, Len(calls))
            /\ call.items = <<>> => res.ok /\ size = before

\* C8 witness: two items, each adding to the counter.
C8_Witness ==
    /\ pc = "returned" /\ call.op = "repeated" /\ res.ok
    /\ call.items = <<3, 0>> /\ call.h = [op |-> "absorb", ty |-> "Trytes"]
    /\ size = before + (6 + 3) + 3

\* C9: ntrukem succeeds exactly when the secret has KEY_SIZE trits, and then
\* adds EKEY_SIZE to the counter, whatever the public key.
C9_NtrukemSecretSize ==
    (pc = "returned" /\ call.op = "ntrukem") =>
        /\ res.ok <=> call.n = ntru_KEY_SIZE
        /\ res.ok => size = before + ntru_EKEY_SIZE

\* C9 witness: a secret of KEY_SIZE trits with a public key of another size.
C9_Witness ==
    /\ pc = "returned" /\ call.op = "ntrukem" /\ call.n = ntru_KEY_SIZE
    /\ call.k # ntru_PK_SIZE /\ res.ok /\ size = before + ntru_EKEY_SIZE

\* C10: repeated invokes the handler on the items in order up to the first
\* one it refuses, on no item after that, and returns that error.
C10_RepeatedStopsAtFirstError ==
    (pc = "returned" /\ call.op = "repeated") =>
        LET calls == handler_calls(call.h, call.items)
            k == FirstRefused(calls)
        IN  IF k = 0
            THEN res.ok /\ seen = call.items
            ELSE /\ ~res.ok
                 /\ seen = SubSeq(call.items, 1, k)
                 /\ res.err = apply(0, sk, calls[k]).err

\* C10 witness: the first of two items is refused and the second, which
\* would be accepted, is not handled.
C10_Witness ==
    /\ pc = "returned" /\ call.op = "repeated" /\ ~res.ok
    /\ call.items = <<1, 3>> /\ seen = <<1>>

\* C11: fork adds nothing of its own: the counter changes by what the calls
\* of the continuation add when made on the context directly, up to the
\* first one that is refused, and fork returns the continuation's result,
\* Ok or that error.
C11_ForkIsItsContinuation ==
    (pc = "returned" /\ call.op = "fork") =>
        LET k == FirstRefused(call.prog)
        IN  IF k = 0
            THEN res.ok /\ size = before + SumDelta(call.prog, Len(call.prog))
            ELSE /\ ~res.ok
                 /\ res.err = apply(0, sk, call.prog[k]).err
                 /\ size = before + SumDelta(call.prog, k - 1)

\* C11 witness: a continuation of two calls that both add to a counter that
\* is not 0.
C11_Witness ==
    /\ pc = "returned" /\ call.op = "fork" /\ res.ok /\ before > 0
    /\ call.prog = <<Call("absorb", "Trint3", 0, 0),
                     Call("mssig", "External_Mac", mss_HASH_SIZE, 0)>>
    /\ size = before + 3 + mss_sig_size(sk.height)

Clean(str) == \A i \in 1..Len(str) : str[i] \notin {":", "<", ">"}

\* C12: for an Address whose addr_id and msg_id hold none of ':', '<', '>',
\* from_string of its to_string, bare or written in angle brackets, is an
\* Address with the same addr_id and msg_id.
C12_AddressRoundTrip ==
    (stage = "parsed" /\ Clean(address.addr_id) /\ Clean(address.msg_id)) =>
        /\ ~parsed.panic
        /\ parsed.addr_id = address.addr_id
        /\ parsed.msg_id = address.msg_id

\* C12 witness: an Address with ids of different lengths read back from its
\* string in angle brackets.
C12_Witness ==
    /\ stage = "parsed"
    /\ address = [addr_id |-> <<"a", "a">>, msg_id |-> <<"a">>]
    /\ link_str = <<"<", "a", "a", ":", "a", ">">>
    /\ parsed = [panic |-> FALSE, addr_id |-> <<"a", "a">>, msg_id |-> <<"a">>]

====
